---- MODULE Spec2Model ----
(***************************************************************************)
(* Model of run_container.py: the container entry script that converts a   *)
(* sequencer run (NextSeq only) and distributes its read files into the    *)
(* sample storage.  Strings are sequences of one-character strings, so     *)
(* that substring tests, basename, join and the file-name pattern are      *)
(* computed the way the script computes them.                              *)
(***************************************************************************)
EXTENDS Integers, Sequences, FiniteSets, TLC

VARIABLES
    environ,           \* os.environ restricted to the two keys the script reads
    runFiles,          \* files under the run directory, as paths relative to it
    storageDirs,       \* directories that exist under the sample storage (absolute paths)
    storageFiles,      \* regular files that exist under the sample storage (absolute paths)
    pc,                \* position of the script
    bound,             \* names bound in the module namespace so far
    run_path,          \* line 34
    run_id,            \* line 35
    nextseq,           \* line 36
    sample_path,       \* line 37
    todo,              \* glob results the grouping loop has not visited yet
    file,              \* line 82: the loop variable
    sample,            \* line 87
    samples_to_files,  \* line 81: insertion-ordered sequence of [sample, files]
    idx,               \* position of the distribution loop in samples_to_files
    used_sample_ids,   \* line 97
    events,            \* stages the current run has been through, in order, each
                       \* with the return code of its subprocess (0 if it has none)
    raised,            \* uncaught exception that ended the run, or ""
    outcome,           \* how the current run ended
    exitStatus,        \* process exit status (meaningful once pc = "exited")
    report,            \* the ids printed by the final report
    dirs0,             \* storageDirs when the current run started
    files0,            \* storageFiles when the current run started
    runFiles0,         \* runFiles when the current run started
    runNo,             \* number of the current invocation
    history            \* summaries of the earlier invocations

vars == << environ, runFiles, storageDirs, storageFiles, pc, bound, run_path,
           run_id, nextseq, sample_path, todo, file, sample,
           samples_to_files, idx, used_sample_ids, events, raised, outcome, exitStatus, report,
           dirs0, files0, runFiles0, runNo, history >>

----------------------------------------------------------------------------
(* Bounds of the model *)

MaxRuns == 2
MaxReturnCode == 1

----------------------------------------------------------------------------
(* Character strings *)

Digits == {"0", "1", "2", "3", "4", "5", "6", "7", "8", "9"}
Whitespace == {" "}

\* the characters of the model, in code-point order
Alphabet == << " ", ".", "/", "0", "1", "2", "3", "4", "5", "6", "7", "8",
               "9", "L", "N", "R", "S", "U", "X", "_", "a", "b", "c", "d",
               "e", "f", "g", "i", "m", "n", "q", "r", "s", "t", "x", "y", "z" >>

Ord(c) == CHOOSE i \in 1..Len(Alphabet) : Alphabet[i] = c

S_nextseq == << "n", "e", "x", "t", "s", "e", "q" >>
S_gz == << ".", "g", "z" >>
S_fastq_gz == << ".", "f", "a", "s", "t", "q" >> \o S_gz
S_Undetermined == << "U", "n", "d", "e", "t", "e", "r", "m", "i", "n", "e", "d" >>
S_reads == << "r", "e", "a", "d", "s" >>
S_fastq == << "f", "a", "s", "t", "q" >>
S_ready == << ".", "r", "e", "a", "d", "y" >>
S_abc1 == << "a", "b", "c", "1" >>
S_b == << "b" >>

\* `sub in s` on str
Contains(s, sub) ==
    \E i \in 1..(Len(s) - Len(sub) + 1) : SubSeq(s, i, i + Len(sub) - 1) = sub

EndsWith(s, suffix) ==
    /\ Len(s) >= Len(suffix)
    /\ SubSeq(s, Len(s) - Len(suffix) + 1, Len(s)) = suffix

LastSlash(s) ==
    IF \E i \in 1..Len(s) : s[i] = "/"
    THEN CHOOSE i \in 1..Len(s) :
            /\ s[i] = "/"
            /\ \A j \in (i + 1)..Len(s) : s[j] # "/"
    ELSE 0

\* os.path.basename
basename(path) == SubSeq(path, LastSlash(path) + 1, Len(path))

\* os.path.join of two components
join(a, b) ==
    IF Len(b) > 0 /\ b[1] = "/" THEN b
    ELSE IF Len(a) = 0 \/ a[Len(a)] = "/" THEN a \o b
    ELSE a \o << "/" >> \o b

join3(a, b, c) == join(join(a, b), c)

\* lexicographic order of str, as sorted() uses it
RECURSIVE StrLess(_, _)
StrLess(s, t) ==
    IF Len(t) = 0 THEN FALSE
    ELSE IF Len(s) = 0 THEN TRUE
    ELSE IF s[1] # t[1] THEN Ord(s[1]) < Ord(t[1])
    ELSE StrLess(Tail(s), Tail(t))

RECURSIVE InsertSorted(_, _)
InsertSorted(x, seq) ==
    IF Len(seq) = 0 THEN << x >>
    ELSE IF StrLess(x, seq[1]) THEN << x >> \o seq
    ELSE << seq[1] >> \o InsertSorted(x, Tail(seq))

\* sorted(list of str)
RECURSIVE sorted(_)
sorted(seq) ==
    IF Len(seq) = 0 THEN << >>
    ELSE InsertSorted(seq[1], sorted(Tail(seq)))

----------------------------------------------------------------------------
\* The file-name pattern p of line 80.  Its five groups are: any characters
\* (greedy); _S and one or more digits; _L00 and a digit 1-4; _R and 1 or 2;
\* _ and three digits, any non-whitespace characters, and .fastq.gz at the end.

AllDigits(s) == \A i \in 1..Len(s) : s[i] \in Digits

\* groups 3, 4 and 5 against the whole of t
LaneReadChunk(t) ==
    /\ Len(t) >= 12 + Len(S_fastq_gz)
    /\ SubSeq(t, 1, 4) = << "_", "L", "0", "0" >>
    /\ t[5] \in {"1", "2", "3", "4"}
    /\ SubSeq(t, 6, 7) = << "_", "R" >>
    /\ t[8] \in {"1", "2"}
    /\ t[9] = "_"
    /\ AllDigits(SubSeq(t, 10, 12))
    /\ EndsWith(SubSeq(t, 13, Len(t)), S_fastq_gz)
    /\ \A i \in 13..(Len(t) - Len(S_fastq_gz)) : t[i] \notin Whitespace

\* group 2 followed by groups 3, 4 and 5, against the whole of t
SampleNumberOn(t) ==
    /\ Len(t) >= 3
    /\ SubSeq(t, 1, 2) = << "_", "S" >>
    /\ \E k \in 1..(Len(t) - 2) :
          /\ AllDigits(SubSeq(t, 3, 2 + k))
          /\ LaneReadChunk(SubSeq(t, 3 + k, Len(t)))

\* the split points at which group 1 may end
Splits(name) == {i \in 0..Len(name) : SampleNumberOn(SubSeq(name, i + 1, Len(name)))}

\* p.match(name): group 1 is greedy, so it ends at the last possible split
PMatch(name) ==
    IF Splits(name) = {} THEN [matched |-> FALSE, group1 |-> << >>]
    ELSE LET i == CHOOSE i \in Splits(name) : \A j \in Splits(name) : j <= i
         IN [matched |-> TRUE, group1 |-> SubSeq(name, 1, i)]

----------------------------------------------------------------------------
(* The inputs the model draws from *)

P_nextseq == << "/" >> \o S_nextseq \o << "_", "0", "1", "/", "X", "1" >>
P_miseq == << "/", "m", "i", "s", "e", "q", "/", "X", "2" >>
P_NextSeq == << "/", "N", "e", "x", "t", "S", "e", "q", "/", "X", "3" >>
RunPaths == {P_nextseq, P_miseq, P_NextSeq}

SamplePath == << "/", "s" >>

Tail_L001_R1 == << "_", "L", "0", "0", "1", "_", "R", "1", "_", "0", "0", "1" >> \o S_fastq_gz
Tail_L002_R2 == << "_", "L", "0", "0", "2", "_", "R", "2", "_", "0", "0", "1" >> \o S_fastq_gz

F_abc1_L1 == S_abc1 \o << "_", "S", "1" >> \o Tail_L001_R1
F_abc1_L2 == << "d", "/" >> \o S_abc1 \o << "_", "S", "1" >> \o Tail_L002_R2
F_undet == S_Undetermined \o << "_", "S", "0" >> \o Tail_L001_R1
F_b == S_b \o << "_", "S", "2" >> \o Tail_L001_R1
F_other == << "x" >> \o S_gz
F_log == << "l", "o", "g", ".", "t", "x", "t" >>
F_sheet_ready == << "S", "a", "m", "p", "l", "e", "S", "h", "e", "e", "t", "_",
                    "r", "e", "a", "d", "y", ".", "c", "s", "v" >>

\* what the sequencer may have left under the run directory
RunFileNames == {F_abc1_L1, F_abc1_L2, F_undet, F_b, F_other, F_log}
\* what bcl2fastq may write under the run directory
ConverterFiles == {F_abc1_L1, F_undet}

ReturnCodes == 0..MaxReturnCode

\* sample ids that may own a directory in the storage before the first run
StoredSamples == {S_abc1, S_b}
StoredStates == {"absent", "bare", "staged"}

F_old == << "o", "l", "d" >> \o S_fastq_gz

ReadPathOf(root, sid) == join3(join(root, sid), S_reads, S_fastq)
MarkerOf(root, sid) == join(join(root, sid), sid \o S_ready)

DirsOfStored(sid, st) ==
    IF st = "absent" THEN {}
    ELSE IF st = "bare" THEN {join(SamplePath, sid)}
    ELSE {join(SamplePath, sid), join3(SamplePath, sid, S_reads),
          ReadPathOf(SamplePath, sid)}

FilesOfStored(sid, st) ==
    IF st = "staged"
    THEN {join(ReadPathOf(SamplePath, sid), F_old), MarkerOf(SamplePath, sid)}
    ELSE {}

Environs ==
    { [k \in D |-> IF k = "run_path" THEN rp ELSE SamplePath] :
        D \in SUBSET {"run_path", "sample_path"}, rp \in RunPaths }

----------------------------------------------------------------------------
(* The state before the first statement of an invocation *)

NoStr == << >>

Fresh ==
    /\ pc = "start"
    /\ bound = {}
    /\ run_path = NoStr
    /\ run_id = NoStr
    /\ nextseq = FALSE
    /\ sample_path = NoStr
    /\ todo = {}
    /\ file = NoStr
    /\ sample = NoStr
    /\ samples_to_files = << >>
    /\ idx = 1
    /\ used_sample_ids = << >>
    /\ events = << >>
    /\ raised = ""
    /\ outcome = "running"
    /\ exitStatus = 0
    /\ report = << >>

Init ==
    /\ environ \in Environs
    /\ runFiles \in SUBSET RunFileNames
    /\ \E st \in [StoredSamples -> StoredStates] :
          /\ storageDirs = {SamplePath} \cup UNION {DirsOfStored(s, st[s]) : s \in StoredSamples}
          /\ storageFiles = UNION {FilesOfStored(s, st[s]) : s \in StoredSamples}
    /\ Fresh
    /\ dirs0 = storageDirs
    /\ files0 = storageFiles
    /\ runFiles0 = runFiles
    /\ runNo = 1
    /\ history = << >>

----------------------------------------------------------------------------
(* The operations of the script *)

\* a variant that tests run_id instead of run_path
IsNextseqInRunId(path) == Contains(basename(path), S_nextseq)

\* line 36: 'nextseq' in run_path
IsNextseq(path) == Contains(path, S_nextseq)

\* the status the operating system reports for sys.exit(code)
ExitStatusOf(code) == code % 256

\* a variant that reuses the code of the final report
L2sFailCodeOfReport == 1

L2sFailCode == -1
B2fFailCode == -1
SuccessCode == 0
CollisionCode == 1
\* the interpreter's exit code for an uncaught exception
UncaughtCode == 1

\* a variant that does not look at the return code
AfterL2sUnchecked(rc) == "b2f"

\* lines 52-56
AfterL2s(rc) == IF rc # 0 THEN "exited" ELSE "b2f"

\* lines 70-74
AfterB2f(rc) == IF rc # 0 THEN "exited" ELSE "glob"

\* line 40
AfterResolve(flag) == IF flag THEN "l2s" ELSE "glob"

\* line 82: glob(f'{run_path}/**/*.gz', recursive=True)
GlobGz(path, files) == {join(path, f) : f \in {g \in files : EndsWith(g, S_gz)}}

\* the names lines 80 and 81 bind, and the names lines 84 and 94 read
PatternNameBound == "p"
MappingNameBound == "samples_to_files"
PatternNameUsed == "p1"
InsertNameUsed == "sample_to_files"

KeyOf(stf, sid) ==
    IF \E i \in 1..Len(stf) : stf[i].sample = sid
    THEN CHOOSE i \in 1..Len(stf) : stf[i].sample = sid
    ELSE 0

\* lines 83-94: the body of the grouping loop for one file.  The result holds
\* the exception raised (or ""), the mapping, the value of `sample` and the names
\* the body has bound.
GroupFile(f, names, stf, old) ==
    LET fastq == basename(f)
        pm == PMatch(fastq)
        k == KeyOf(stf, pm.group1)
    IN  IF PatternNameUsed \notin names
        THEN [raised |-> "NameError", mapping |-> stf, sample |-> old,
              names |-> {"file", "fastq"}]
        ELSE IF ~pm.matched
        THEN [raised |-> "", mapping |-> stf, sample |-> old,
              names |-> {"file", "fastq", "pm"}]
        ELSE IF pm.group1 = S_Undetermined
        THEN [raised |-> "", mapping |-> stf, sample |-> pm.group1,
              names |-> {"file", "fastq", "pm", "sample"}]
        ELSE IF k # 0
        THEN [raised |-> "", sample |-> pm.group1,
              mapping |-> [stf EXCEPT ![k].files = Append(@, f)],
              names |-> {"file", "fastq", "pm", "sample"}]
        ELSE IF InsertNameUsed \notin names
        THEN [raised |-> "NameError", mapping |-> stf, sample |-> pm.group1,
              names |-> {"file", "fastq", "pm", "sample"}]
        ELSE [raised |-> "", sample |-> pm.group1,
              mapping |-> Append(stf, [sample |-> pm.group1, files |-> << f >>]),
              names |-> {"file", "fastq", "pm", "sample"}]

\* os.path.exists
exists(path, dirs, files) == path \in dirs \cup files

Ancestors(path) ==
    {SubSeq(path, 1, i - 1) : i \in {j \in 2..Len(path) : path[j] = "/"}} \cup {path}

\* os.makedirs(path): the leaf must not exist; missing parents are created
makedirs(path, dirs) ==
    IF path \in dirs THEN [raised |-> "FileExistsError", dirs |-> dirs]
    ELSE [raised |-> "", dirs |-> dirs \cup Ancestors(path)]

\* shutil.copyfile(src, dst): dst is opened for writing as a file
copyfile(src, dst, dirs, files) ==
    IF dst \in dirs THEN [raised |-> "IsADirectoryError", files |-> files]
    ELSE [raised |-> "", files |-> files \cup {dst}]

\* lines 107-108: for file in files: copyfile(file, full_read_path)
RECURSIVE CopyAll(_, _, _, _)
CopyAll(srcs, dst, dirs, files) ==
    IF Len(srcs) = 0 THEN [raised |-> "", files |-> files]
    ELSE LET c == copyfile(srcs[1], dst, dirs, files)
         IN IF c.raised # "" THEN c ELSE CopyAll(Tail(srcs), dst, dirs, c.files)

\* Path(...).touch()
touch(path, files) == files \cup {path}

\* lines 99-109: the body of the distribution loop for one sample
DistributeSample(root, entry, dirs, files) ==
    LET full_sample_path == join(root, entry.sample)
        full_read_path == join3(full_sample_path, S_reads, S_fastq)
        md == makedirs(full_read_path, dirs)
        cp == CopyAll(entry.files, full_read_path, md.dirs, files)
    IN  IF exists(full_sample_path, dirs, files)
        THEN [raised |-> "", used |-> TRUE, dirs |-> dirs, files |-> files]
        ELSE IF md.raised # ""
        THEN [raised |-> md.raised, used |-> FALSE, dirs |-> dirs, files |-> files]
        ELSE IF cp.raised # ""
        THEN [raised |-> cp.raised, used |-> FALSE, dirs |-> md.dirs, files |-> cp.files]
        ELSE [raised |-> "", used |-> FALSE, dirs |-> md.dirs,
              files |-> touch(join(full_sample_path, entry.sample \o S_ready), cp.files)]

----------------------------------------------------------------------------
(* The steps of one invocation *)

ioVars == << environ, runNo, history, dirs0, files0, runFiles0 >>
storageVars == << storageDirs, storageFiles >>
loopVars == << todo, file, sample, samples_to_files, idx, used_sample_ids >>
pathVars == << run_path, run_id, nextseq, sample_path >>

\* an uncaught exception ends the interpreter
Uncaught(exc) ==
    /\ pc' = "exited"
    /\ raised' = exc
    /\ outcome' = "exception"
    /\ exitStatus' = ExitStatusOf(UncaughtCode)

\* sys.exit(code)
SysExit(code, how) ==
    /\ pc' = "exited"
    /\ raised' = ""
    /\ outcome' = how
    /\ exitStatus' = ExitStatusOf(code)

Continue(next) ==
    /\ pc' = next
    /\ UNCHANGED << raised, outcome, exitStatus >>

\* lines 34-40
ResolveEnv ==
    /\ pc = "start"
    /\ IF "run_path" \notin DOMAIN environ
       THEN /\ Uncaught("KeyError")
            /\ UNCHANGED << pathVars, bound >>
       ELSE /\ run_path' = environ["run_path"]
            /\ run_id' = basename(run_path')
            /\ nextseq' = IsNextseq(run_path')
            /\ IF "sample_path" \notin DOMAIN environ
               THEN /\ Uncaught("KeyError")
                    /\ sample_path' = sample_path
                    /\ bound' = {"run_path", "run_id", "nextseq"}
               ELSE /\ sample_path' = environ["sample_path"]
                    /\ bound' = {"run_path", "run_id", "nextseq", "sample_path"}
                    /\ Continue(AfterResolve(nextseq'))
    /\ UNCHANGED << ioVars, storageVars, loopVars, runFiles, events, report >>

\* lines 43-56: library_to_samplesheet, waited for
RunL2s ==
    /\ pc = "l2s"
    /\ \E rc \in ReturnCodes :
          /\ events' = Append(events, [stage |-> "l2s", rc |-> rc])
          /\ bound' = bound \cup {"process_l2s", "stdout", "stderr"}
          /\ runFiles' = IF rc = 0 THEN runFiles \cup {F_sheet_ready} ELSE runFiles
          /\ IF AfterL2s(rc) = "exited"
             THEN SysExit(L2sFailCode, "l2s_failed")
             ELSE Continue(AfterL2s(rc))
    /\ UNCHANGED << ioVars, storageVars, loopVars, pathVars, report >>

\* lines 59-74: bcl2fastq, waited for; it writes read files under the run directory
RunB2f ==
    /\ pc = "b2f"
    /\ \E rc \in ReturnCodes, out \in SUBSET ConverterFiles :
          /\ events' = Append(events, [stage |-> "b2f", rc |-> rc])
          /\ bound' = bound \cup {"process_b2f"}
          /\ runFiles' = runFiles \cup out
          /\ IF AfterB2f(rc) = "exited"
             THEN SysExit(B2fFailCode, "b2f_failed")
             ELSE Continue(AfterB2f(rc))
    /\ UNCHANGED << ioVars, storageVars, loopVars, pathVars, report >>

\* lines 80-82: compile the pattern, create the mapping, evaluate the glob
Glob ==
    /\ pc = "glob"
    /\ events' = Append(events, [stage |-> "discover", rc |-> 0])
    /\ bound' = bound \cup {PatternNameBound, MappingNameBound}
    /\ samples_to_files' = << >>
    /\ todo' = GlobGz(run_path, runFiles)
    /\ Continue("group")
    /\ UNCHANGED << ioVars, storageVars, pathVars, runFiles, file, sample, idx,
                    used_sample_ids, report >>

\* lines 82-97: one iteration of the grouping loop, or its end
GroupNext ==
    /\ pc = "group"
    /\ IF todo = {}
       THEN /\ used_sample_ids' = << >>
            /\ idx' = 1
            /\ bound' = bound \cup {"used_sample_ids"}
            /\ events' = Append(events, [stage |-> "distribute", rc |-> 0])
            /\ Continue("distribute")
            /\ UNCHANGED << todo, file, sample, samples_to_files >>
       ELSE \E f \in todo :
               LET g == GroupFile(f, bound, samples_to_files, sample)
               IN  /\ file' = f
                   /\ sample' = g.sample
                   /\ samples_to_files' = g.mapping
                   /\ todo' = todo \ {f}
                   /\ bound' = bound \cup g.names
                   /\ IF g.raised # "" THEN Uncaught(g.raised) ELSE Continue("group")
                   /\ UNCHANGED << used_sample_ids, idx, events >>
    /\ UNCHANGED << ioVars, storageVars, pathVars, runFiles, report >>

\* lines 98-109: one iteration of the distribution loop, or its end
DistributeNext ==
    /\ pc = "distribute"
    /\ IF idx > Len(samples_to_files)
       THEN /\ Continue("report")
            /\ UNCHANGED << storageVars, idx, used_sample_ids >>
       ELSE LET d == DistributeSample(sample_path, samples_to_files[idx],
                                      storageDirs, storageFiles)
            IN  /\ storageDirs' = d.dirs
                /\ storageFiles' = d.files
                /\ used_sample_ids' = IF d.used
                                      THEN Append(used_sample_ids, samples_to_files[idx].sample)
                                      ELSE used_sample_ids
                /\ idx' = idx + 1
                /\ IF d.raised # "" THEN Uncaught(d.raised) ELSE Continue("distribute")
    /\ UNCHANGED << ioVars, pathVars, runFiles, todo, file, sample,
                    samples_to_files, bound, events, report >>

\* lines 112-118
Report ==
    /\ pc = "report"
    /\ events' = Append(events, [stage |-> "report", rc |-> 0])
    /\ IF Len(used_sample_ids) = 0
       THEN /\ SysExit(SuccessCode, "ok")
            /\ report' = report
       ELSE /\ SysExit(CollisionCode, "collisions")
            /\ report' = sorted(used_sample_ids)
    /\ UNCHANGED << ioVars, storageVars, pathVars, loopVars, runFiles, bound >>

\* what is kept of a finished invocation
Summary ==
    [outcome |-> outcome, exitStatus |-> exitStatus, raised |-> raised,
     report |-> report, events |-> events,
     dirs0 |-> dirs0, files0 |-> files0, dirs |-> storageDirs, files |-> storageFiles,
     runFiles |-> runFiles]

\* the script is started again on the same run directory and sample storage
NextRun ==
    /\ pc = "exited"
    /\ runNo < MaxRuns
    /\ history' = Append(history, Summary)
    /\ runNo' = runNo + 1
    /\ dirs0' = storageDirs
    /\ files0' = storageFiles
    /\ runFiles0' = runFiles
    /\ pc' = "start"
    /\ bound' = {}
    /\ run_path' = NoStr
    /\ run_id' = NoStr
    /\ nextseq' = FALSE
    /\ sample_path' = NoStr
    /\ todo' = {}
    /\ file' = NoStr
    /\ sample' = NoStr
    /\ samples_to_files' = << >>
    /\ idx' = 1
    /\ used_sample_ids' = << >>
    /\ events' = << >>
    /\ raised' = ""
    /\ outcome' = "running"
    /\ exitStatus' = 0
    /\ report' = << >>
    /\ UNCHANGED << environ, runFiles, storageVars >>

Next ==
    \/ ResolveEnv
    \/ RunL2s
    \/ RunB2f
    \/ Glob
    \/ GroupNext
    \/ DistributeNext
    \/ Report
    \/ NextRun

Spec == Init /\ [][Next]_vars

----------------------------------------------------------------------------
(* Vocabulary of the properties *)

\* the run-directory path holds the NextSeq marker somewhere
HasMarker(path) ==
    \E i \in 1..Len(path) :
        /\ i + Len(S_nextseq) - 1 <= Len(path)
        /\ \A k \in 1..Len(S_nextseq) : path[i + k - 1] = S_nextseq[k]

Stages(ev) == [i \in 1..Len(ev) |-> ev[i].stage]

IsPrefix(a, b) == Len(a) <= Len(b) /\ SubSeq(b, 1, Len(a)) = a

Discovered(ev) == \E i \in 1..Len(ev) : ev[i].stage = "discover"
Completed(ev) == Len(ev) > 0 /\ ev[Len(ev)].stage = "report"
TranslationFailed(ev) ==
    Len(ev) > 0 /\ ev[Len(ev)].stage = "l2s" /\ ev[Len(ev)].rc # 0
ConversionFailed(ev) ==
    Len(ev) > 0 /\ ev[Len(ev)].stage = "b2f" /\ ev[Len(ev)].rc # 0

Parent(path) == SubSeq(path, 1, LastSlash(path) - 1)

Under(path, dir) ==
    /\ Len(path) > Len(dir)
    /\ SubSeq(path, 1, Len(dir)) = dir
    /\ path[Len(dir) + 1] = "/"

\* the read files of the run directory that follow the naming convention
ReadFiles(files) ==
    {f \in files : EndsWith(f, S_gz) /\ PMatch(basename(f)).matched}

\* the sample-to-files mapping of the run directory: its keys, and the files of a key
ExpectedSamples(files) ==
    {PMatch(basename(f)).group1 : f \in ReadFiles(files)} \ {S_Undetermined}
ExpectedFiles(files, sid) ==
    {f \in ReadFiles(files) : PMatch(basename(f)).group1 = sid}

InSeq(x, seq) == \E i \in 1..Len(seq) : seq[i] = x
IsSorted(seq) == \A i, j \in 1..Len(seq) : i < j => ~StrLess(seq[j], seq[i])

\* a name has the sample-number marker at i: _S, digits, and the lane marker
MarkerAt(name, i) ==
    /\ i + 1 <= Len(name)
    /\ name[i] = "_"
    /\ name[i + 1] = "S"
    /\ \E k \in 1..Len(name) :
          /\ i + 1 + k + 4 <= Len(name)
          /\ AllDigits(SubSeq(name, i + 2, i + 1 + k))
          /\ SubSeq(name, i + 2 + k, i + 5 + k) = << "_", "L", "0", "0" >>

\* the part of a name before its (last) sample-number marker
PrefixBeforeMarker(name) ==
    LET at == {i \in 1..Len(name) : MarkerAt(name, i)}
    IN  IF at = {} THEN name
        ELSE SubSeq(name, 1, (CHOOSE i \in at : \A j \in at : j <= i) - 1)

----------------------------------------------------------------------------
(* C3 *)

\* C3: when the run-directory path holds the NextSeq marker, the translator runs
\* first, the converter second, both have returned (with code 0) before the
\* discovery starts; when it does not hold the marker, neither tool is ever run and
\* discovery is the first stage.
C3_ToolsBeforeDiscovery ==
    "run_path" \in DOMAIN environ =>
        LET st == Stages(events)
        IN  IF HasMarker(environ["run_path"])
            THEN /\ IsPrefix(st, << "l2s", "b2f", "discover", "distribute", "report" >>)
                 /\ pc \in {"glob", "group", "distribute", "report"} =>
                        /\ Len(events) >= 2
                        /\ events[1].rc = 0
                        /\ events[2].rc = 0
                 /\ pc = "glob" => st = << "l2s", "b2f" >>
            ELSE /\ IsPrefix(st, << "discover", "distribute", "report" >>)
                 /\ pc \notin {"l2s", "b2f"}

\* a NextSeq run that has been through both tools and has evaluated the glob
C3_Witness ==
    /\ "run_path" \in DOMAIN environ
    /\ HasMarker(environ["run_path"])
    /\ pc = "group"
    /\ Stages(events) = << "l2s", "b2f", "discover" >>

----------------------------------------------------------------------------
(* C4 *)

\* C4: a tool that returns non-zero is the last thing the run does: the run has
\* exited, no later stage (converter, discovery, distribution, report) has run,
\* and the sample storage is as it was when the run started; and no tool runs
\* twice in one run.
C4_HaltOnToolFailure ==
    /\ \A i \in 1..Len(events) :
          (events[i].stage \in {"l2s", "b2f"} /\ events[i].rc # 0) =>
              /\ i = Len(events)
              /\ pc = "exited"
              /\ storageDirs = dirs0
              /\ storageFiles = files0
    /\ Cardinality({i \in 1..Len(events) : events[i].stage = "l2s"}) <= 1
    /\ Cardinality({i \in 1..Len(events) : events[i].stage = "b2f"}) <= 1

\* an invocation whose translator failed, followed by one whose converter failed
C4_Witness ==
    /\ runNo = 2
    /\ TranslationFailed(history[1].events)
    /\ ConversionFailed(events)
    /\ Stages(events) = << "l2s", "b2f" >>
    /\ pc = "exited"

----------------------------------------------------------------------------
(* C5 *)

FailureKind(ev, rep) ==
    IF TranslationFailed(ev) THEN "translation"
    ELSE IF ConversionFailed(ev) THEN "conversion"
    ELSE IF Completed(ev) /\ Len(rep) > 0 THEN "collisions"
    ELSE "none"

\* C5 as stated: the exit status is 0 exactly when the run completed without
\* collisions, 1 when it completed with collisions, non-zero when a tool failed,
\* and translation failure, conversion failure and collisions have pairwise
\* distinct statuses.
C5_PairwiseDistinctCodes ==
    pc = "exited" =>
        /\ exitStatus = 0 <=> (Completed(events) /\ Len(used_sample_ids) = 0)
        /\ (Completed(events) /\ Len(used_sample_ids) > 0) => exitStatus = 1
        /\ (TranslationFailed(events) \/ ConversionFailed(events)) => exitStatus \notin {0, 1}
        /\ \A i \in 1..Len(history) :
              LET a == FailureKind(history[i].events, history[i].report)
                  b == FailureKind(events, report)
              IN  (a # "none" /\ b # "none" /\ a # b) =>
                      history[i].exitStatus # exitStatus

\* C5 as amended: the exit status is 0 exactly when the run completed without
\* collisions, 1 when it completed with collisions, and 255 (the status of
\* sys.exit(-1)) both when the translator failed and when the converter failed.
C5_ExitStatus ==
    pc = "exited" =>
        /\ exitStatus = 0 <=> (Completed(events) /\ Len(used_sample_ids) = 0)
        /\ (Completed(events) /\ Len(used_sample_ids) > 0) => exitStatus = 1
        /\ TranslationFailed(events) => exitStatus = 255
        /\ ConversionFailed(events) => exitStatus = 255

\* an invocation whose translator failed, followed by one whose converter failed,
\* both ended with status 255
C5_Witness ==
    /\ runNo = 2
    /\ pc = "exited"
    /\ TranslationFailed(history[1].events)
    /\ history[1].exitStatus = 255
    /\ ConversionFailed(events)
    /\ exitStatus = 255

----------------------------------------------------------------------------
(* C1, C2, C6, C8, C9: what the script is meant to do with the read files *)

FilesUnder(files, dir) == {f \in files : Under(f, dir)}
DirsUnder(dirs, dir) == {d \in dirs : Under(d, dir)}

\* C1: once a run that reached the discovery has ended, every sample of the run
\* directory whose directory did not exist when the run started has, under
\* reads/fastq, exactly the read files matched for it, has exactly its readiness
\* marker directly under its directory, and its source files are still in the
\* run directory.
C1_NewSamplesPopulated ==
    (pc = "exited" /\ Discovered(events)) =>
        \A sid \in ExpectedSamples(runFiles0) :
            LET dir == join(SamplePath, sid)
                rp == ReadPathOf(SamplePath, sid)
            IN  dir \notin dirs0 =>
                    /\ FilesUnder(storageFiles, rp)
                         = {join(rp, basename(f)) : f \in ExpectedFiles(runFiles0, sid)}
                    /\ {f \in storageFiles : Parent(f) = dir} = {MarkerOf(SamplePath, sid)}
                    /\ ExpectedFiles(runFiles0, sid) \subseteq runFiles

\* C2: once a run that reached the discovery has ended, every sample of the run
\* directory whose directory existed when the run started has its directory
\* unchanged and its id in the final report, and the report is sorted.
C2_CollisionsReported ==
    (pc = "exited" /\ Discovered(events)) =>
        /\ \A sid \in ExpectedSamples(runFiles) :
              LET dir == join(SamplePath, sid)
              IN  dir \in dirs0 =>
                      /\ DirsUnder(storageDirs, dir) = DirsUnder(dirs0, dir)
                      /\ FilesUnder(storageFiles, dir) = FilesUnder(files0, dir)
                      /\ InSeq(sid, report)
        /\ IsSorted(report)

\* C6: when the script has run twice on the same run directory and sample storage
\* and both runs reached the discovery, the second run has created nothing under
\* the sample storage and its report holds every sample of the first run.
C6_SecondRunReportsAll ==
    (runNo = 2 /\ pc = "exited" /\ Discovered(events)
        /\ Discovered(history[1].events) /\ history[1].runFiles = runFiles) =>
        /\ storageDirs = dirs0
        /\ storageFiles = files0
        /\ \A sid \in ExpectedSamples(history[1].runFiles) : InSeq(sid, report)

\* a sample directory holds its reads directory with a read file, and its marker
FullyPopulated(dir) ==
    /\ join3(dir, S_reads, S_fastq) \in storageDirs
    /\ FilesUnder(storageFiles, join3(dir, S_reads, S_fastq)) # {}
    /\ join(dir, basename(dir) \o S_ready) \in storageFiles

C9_SampleIsPrefix ==
    ("file" \in bound /\ PMatch(basename(file)).matched) =>
        /\ "sample" \in bound
        /\ sample = PrefixBeforeMarker(basename(file))

----------------------------------------------------------------------------
(* C7, C10: properties of statements the script never reaches *)

\* C7: Undetermined is no key of the mapping, no file of the mapping parses to
\* it, and the run creates no directory for it.
C7_NoUndetermined ==
    /\ \A i \in 1..Len(samples_to_files) :
          /\ samples_to_files[i].sample # S_Undetermined
          /\ \A j \in 1..Len(samples_to_files[i].files) :
                PMatch(basename(samples_to_files[i].files[j])).group1 # S_Undetermined
    /\ join(SamplePath, S_Undetermined) \notin storageDirs

\* C10: a marker the run has created stands next to a copy of every file the
\* mapping holds for its sample.
C10_MarkerAfterCopies ==
    \A i \in 1..Len(samples_to_files) :
        LET e == samples_to_files[i]
        IN  MarkerOf(SamplePath, e.sample) \in storageFiles \ files0 =>
                \A j \in 1..Len(e.files) :
                    join(ReadPathOf(SamplePath, e.sample), basename(e.files[j]))
                        \in storageFiles

====
